---- MODULE Spec2Model ----
(***************************************************************************)
(* Model of package request (src/src/request/request.go):                  *)
(*   CallRequest          - one HTTP request with a bounded retry loop     *)
(*   DownloadURL          - fetch one URL and stream its body to a file    *)
(*   DownloadURLsParallel - run a batch of DownloadURL calls, at most      *)
(*                          maxConcurrency at a time                       *)
(* One goroutine per job plus the coordinator; the file system, the slot   *)
(* channel, the WaitGroup and the progress bar are the shared state.       *)
(***************************************************************************)
EXTENDS Integers, Sequences, FiniteSets, TLC

\* ---------------------------------------------------------------- bounds
MaxJobs == 3          \* largest batch (len(urls))
MaxConcurrency == 2   \* largest maxConcurrency argument
NumPaths == 2         \* distinct resolved destination paths
BodyLen == 2          \* chunks io.Copy moves for one response body
MaxCallers == 2       \* concurrent direct callers of CallRequest (SpecCall)
RETRY_COUNTER == 2    \* utils.RETRY_COUNTER, the attempt bound of CallRequest
MaxQueryLen == 2      \* key=value pairs in the query of the url argument
MaxPathLen == 3       \* characters of the filePath argument
MaxURLLen == 3        \* characters of the response URL's path after its first "/"

Paths == 1..NumPaths

VARIABLES
    urls,            \* the batch: urls[j] is the path job j's destination resolves to
    maxConcurrency,  \* the parameter, then min(parameter, len(urls)) = cap(queue)
    bar,             \* progress bar: number of bar.Add(1) calls so far
    barTotal,        \* progress bar: total handed to GetProgressBar (-1 before)
    wg,              \* sync.WaitGroup counter
    queue,           \* number of values buffered in the slot channel
    closed,          \* the slot channel has been closed
    cpc,             \* coordinator's position in DownloadURLsParallel
    idx,             \* coordinator's loop index (next job to admit)
    pc,              \* pc[j]: position of job j's goroutine: "idle" (not started),
                     \*   "newreq", "loop", "sleep", "cr_ret" (in CallRequest / just returned),
                     \*   "check", "create", "copy", "cleanup", "ret" (in DownloadURL / just returned),
                     \*   "release", "wgdone", "done", "panic_res", "panic_create"
    checkStatus,     \* checkStatus[j]: CallRequest's checkStatus argument
    i,               \* i[j]: CallRequest's loop counter
    last,            \* last[j]: outcome of the latest client.Do ("none","err","non200","ok")
    res,             \* res[j]: response returned by CallRequest ("none","nil","resp")
    err,             \* err[j]: CallRequest's outer err variable / returned error
    off,             \* off[j]: chunks io.Copy has written so far
    file,            \* file[j]: inode behind the *os.File of job j (0: none)
    ret,             \* ret[j]: the value DownloadURL has just returned ("none","nil","err")
    result,          \* result[j]: the return statement it left by ("none","reqerr","skipped","written","writefail")
    fs,              \* fs[p]: the file at path p, [id, data]; id 0: no file
    pre,             \* pre[p]: what path p held before the run
    dirs,            \* directories that exist (by the path they hold)
    crashed,         \* an unrecovered panic has terminated the process
    urlQuery,        \* query of CallRequest's url argument: sequence of <<key, value>>
    params,          \* CallRequest's params argument: map from some keys to a value
    query,           \* the url.Values of req.URL.Query(): query[k] is key k's values
    todo,            \* keys of params the range loop has not visited yet
    rawQuery,        \* req.URL.RawQuery: sequence of <<key, value>>
    qpc,             \* position in the params block: "idle", "params", "range", "done"
    supplied,        \* DownloadURL's filePath argument as the caller passed it
    filePath,        \* DownloadURL's filePath variable (reassigned on lines 93, 98)
    reqURL,          \* res.Request.URL.String(), from the first "/" of its path on
    filename,        \* the local filename of lines 87-93
    ppc              \* position in the path block: "idle", "ext", "lastpart", "join", "resolved"

queryVars == <<urlQuery, params, query, todo, rawQuery, qpc>>
pathVars == <<supplied, filePath, reqURL, filename, ppc>>
pureVars == <<queryVars, pathVars>>

runVars == <<urls, maxConcurrency, bar, barTotal, wg, queue, closed, cpc, idx,
             pc, checkStatus, i, last, res, err, off, file, ret, result,
             fs, pre, dirs, crashed>>

vars == <<runVars, pureVars>>

coordVars == <<maxConcurrency, bar, barTotal, wg, queue, closed, cpc, idx>>
callVars == <<i, last, res, err>>
fsVars == <<fs, dirs>>

Jobs == 1..Len(urls)

\* ---------------------------------------------------------- file system
NoFile == [id |-> 0, data |-> <<>>]
Hole == <<0, 0>>
OldData == << <<0, 1>> >>

\* The response body of job j, chunk by chunk.
Body(j) == [k \in 1..BodyLen |-> <<j, k>>]

\* utils.CheckIfFileIsEmpty: true when the path holds no file or an empty one.
CheckIfFileIsEmpty(p) == fs[p].id = 0 \/ Len(fs[p].data) = 0

\* A write of chunk c at offset o (0-based) of a file holding data.
WriteAt(data, o, c) ==
    [k \in 1..(IF o + 1 > Len(data) THEN o + 1 ELSE Len(data)) |->
        IF k = o + 1 THEN c
        ELSE IF k <= Len(data) THEN data[k]
        ELSE Hole]

\* os.Create by job j: truncate the file at p, or make a new one.
OsCreate(p, j) ==
    IF fs[p].id = 0 THEN [id |-> NumPaths + j, data |-> <<>>]
    ELSE [id |-> fs[p].id, data |-> <<>>]

InitFile(p, s) ==
    CASE s = "absent" -> NoFile
      [] s = "empty" -> [id |-> p, data |-> <<>>]
      [] s = "old" -> [id |-> p, data |-> OldData]

\* ------------------------------------------------- query strings, paths
\* Query keys in the order url.Values.Encode writes them (sorted), and values.
SortedKeys == <<"k1", "k2">>
Keys == {SortedKeys[n] : n \in 1..Len(SortedKeys)}
Vals == {"v1", "v2"}

RECURSIVE SeqsUpTo(_, _)
\* The sequences over S of length at most n.
SeqsUpTo(S, n) ==
    IF n = 0 THEN {<<>>}
    ELSE LET shorter == SeqsUpTo(S, n - 1)
         IN shorter \cup {Append(s, x) : s \in shorter, x \in S}

\* url.Values of a raw query (req.URL.Query()): each key's values, in the
\* order they stand in the query string.
ParseQuery(raw) ==
    [k \in Keys |->
        LET own == SelectSeq(raw, LAMBDA kv : kv[1] = k)
        IN [n \in 1..Len(own) |-> own[n][2]]]

RECURSIVE EncodeFrom(_, _)
\* url.Values.Encode(): the keys in sorted order, each with its values in order.
EncodeFrom(v, n) ==
    IF n > Len(SortedKeys) THEN <<>>
    ELSE LET k == SortedKeys[n]
         IN [m \in 1..Len(v[k]) |-> <<k, v[k][m]>>] \o EncodeFrom(v, n + 1)

Encode(v) == EncodeFrom(v, 1)

\* Characters of a local path, and of a URL: "%2F" stands for the three
\* characters of an escaped slash.
PathChars == {"a", "B", ".", "/"}
URLChars == PathChars \cup {"%2F"}

\* strings.ToLower
ToLower(s) == [n \in 1..Len(s) |-> IF s[n] = "B" THEN "b" ELSE s[n]]

\* url.PathUnescape: every escape replaced by the character it stands for.
PathUnescape(s) == [n \in 1..Len(s) |-> IF s[n] = "%2F" THEN "/" ELSE s[n]]

\* filepath.Ext: the suffix from the last dot of the last path element on,
\* empty when that element has no dot.
Ext(s) ==
    LET dots == {n \in 1..Len(s) : s[n] = "." /\ \A m \in n..Len(s) : s[m] # "/"}
    IN IF dots = {} THEN <<>>
       ELSE SubSeq(s, CHOOSE n \in dots : \A m \in dots : m <= n, Len(s))

\* utils.RemoveExtFromFilename: the name without its extension suffix.
RemoveExtFromFilename(s) == SubSeq(s, 1, Len(s) - Len(Ext(s)))

\* utils.GetLastPartOfURL: what follows the last "/".
GetLastPartOfURL(s) ==
    LET slashes == {n \in 1..Len(s) : s[n] = "/"}
    IN IF slashes = {} THEN s
       ELSE SubSeq(s, (CHOOSE n \in slashes : \A m \in slashes : m <= n) + 1, Len(s))

RECURSIVE Split(_)
\* strings.Split(s, "/")
Split(s) ==
    IF \A n \in 1..Len(s) : s[n] # "/" THEN <<s>>
    ELSE LET k == CHOOSE n \in 1..Len(s) : s[n] = "/" /\ \A m \in 1..(n - 1) : s[m] # "/"
         IN <<SubSeq(s, 1, k - 1)>> \o Split(SubSeq(s, k + 1, Len(s)))

RECURSIVE CleanElems(_, _, _)
\* filepath.Clean, element by element: empty and "." elements go, ".." takes
\* the element before it away (at the root it goes, at the start it stays).
CleanElems(es, out, rooted) ==
    IF es = <<>> THEN out
    ELSE LET e == Head(es)
             rest == Tail(es)
         IN IF e = <<>> \/ e = <<".">> THEN CleanElems(rest, out, rooted)
            ELSE IF e # <<".", ".">> THEN CleanElems(rest, Append(out, e), rooted)
            ELSE IF Len(out) > 0 /\ out[Len(out)] # <<".", ".">>
                 THEN CleanElems(rest, SubSeq(out, 1, Len(out) - 1), rooted)
            ELSE IF rooted THEN CleanElems(rest, out, rooted)
            ELSE CleanElems(rest, Append(out, e), rooted)

RECURSIVE JoinElems(_)
\* strings.Join(es, "/")
JoinElems(es) ==
    IF es = <<>> THEN <<>>
    ELSE IF Len(es) = 1 THEN es[1]
    ELSE es[1] \o <<"/">> \o JoinElems(Tail(es))

\* filepath.Clean
Clean(s) ==
    LET rooted == Len(s) > 0 /\ s[1] = "/"
        body == JoinElems(CleanElems(Split(s), <<>>, rooted))
    IN IF rooted THEN <<"/">> \o body
       ELSE IF body = <<>> THEN <<".">>
       ELSE body

\* filepath.Join of two elements: empty elements are ignored, the rest are
\* joined by "/" and cleaned.
FilepathJoin(a, b) ==
    IF a = <<>> /\ b = <<>> THEN <<>>
    ELSE IF a = <<>> THEN Clean(b)
    ELSE IF b = <<>> THEN Clean(a)
    ELSE Clean(a \o <<"/">> \o b)

\* ----------------------------------------------------------------- Init
InitLocals ==
    /\ i = [j \in Jobs |-> 0]
    /\ last = [j \in Jobs |-> "none"]
    /\ res = [j \in Jobs |-> "none"]
    /\ err = [j \in Jobs |-> "none"]
    /\ off = [j \in Jobs |-> 0]
    /\ file = [j \in Jobs |-> 0]
    /\ ret = [j \in Jobs |-> "none"]
    /\ result = [j \in Jobs |-> "none"]
    /\ crashed = FALSE

InitFs ==
    /\ pre \in [Paths -> {"absent", "empty", "old"}]
    /\ fs = [p \in Paths |-> InitFile(p, pre[p])]
    /\ dirs = {p \in Paths : pre[p] # "absent"}

\* No params block and no path block is under way.
InitPureIdle ==
    /\ urlQuery = <<>>
    /\ params = [k \in {} |-> "v1"]
    /\ query = [k \in Keys |-> <<>>]
    /\ todo = {}
    /\ rawQuery = <<>>
    /\ qpc = "idle"
    /\ supplied = <<>>
    /\ filePath = <<>>
    /\ reqURL = <<>>
    /\ filename = <<>>
    /\ ppc = "idle"

\* A call DownloadURLsParallel(urls, maxConcurrency, ...) is about to run.
\* Path names are interchangeable (pre ranges over every assignment), so the
\* first job's path is called 1.
Init ==
    /\ \E K \in 0..MaxJobs : urls \in [1..K -> Paths]
    /\ Len(urls) > 0 => urls[1] = 1
    /\ maxConcurrency \in 0..MaxConcurrency
    /\ bar = 0
    /\ barTotal = -1
    /\ wg = 0
    /\ queue = 0
    /\ closed = FALSE
    /\ cpc = "start"
    /\ idx = 1
    /\ pc = [j \in Jobs |-> "idle"]
    /\ checkStatus = [j \in Jobs |-> TRUE]
    /\ InitLocals
    /\ InitFs
    /\ InitPureIdle

\* ---------------------------------------------------- DownloadURLsParallel
\* lines 130-142: clamp maxConcurrency, make the bar, the WaitGroup, the channel.
Start ==
    /\ ~crashed
    /\ cpc = "start"
    /\ maxConcurrency' = IF Len(urls) < maxConcurrency THEN Len(urls) ELSE maxConcurrency
    /\ barTotal' = Len(urls)
    /\ bar' = 0
    /\ wg' = 0
    /\ queue' = 0
    /\ closed' = FALSE
    /\ idx' = 1
    /\ cpc' = IF Len(urls) = 0 THEN "close" ELSE "add"
    /\ UNCHANGED <<pureVars, urls, pc, checkStatus, callVars, off, file, ret, result, fsVars, pre, crashed>>

\* line 144: wg.Add(1)
WgAdd ==
    /\ ~crashed
    /\ cpc = "add"
    /\ wg' = wg + 1
    /\ cpc' = "send"
    /\ UNCHANGED <<pureVars, urls, maxConcurrency, bar, barTotal, queue, closed, idx, pc,
                   checkStatus, callVars, off, file, ret, result, fsVars, pre, crashed>>

\* CanSend that lets a send on an unbuffered channel through with no receiver.
CanSendUnbuffered == queue < maxConcurrency \/ maxConcurrency = 0

\* CanSend with the buffer one slot too large.
CanSendOffByOne == queue <= maxConcurrency

\* CanSend that keeps one slot of the buffer unused.
CanSendTooStrict == queue + 1 < maxConcurrency

\* The slot channel accepts a send while its buffer is not full.
CanSend == queue < maxConcurrency

\* Send that closes the channel one job early and starts the last goroutine
\* without a send.
SendClosesEarly ==
    /\ ~crashed
    /\ cpc = "send"
    /\ IF idx = Len(urls) /\ idx > 1
       THEN closed' = TRUE /\ queue' = queue
       ELSE ~closed /\ CanSend /\ queue' = queue + 1 /\ closed' = closed
    /\ pc' = [pc EXCEPT ![idx] = "newreq"]
    /\ idx' = idx + 1
    /\ cpc' = IF idx = Len(urls) THEN "close" ELSE "add"
    /\ UNCHANGED <<pureVars, urls, maxConcurrency, bar, barTotal, wg,
                   checkStatus, callVars, off, file, ret, result, fsVars, pre, crashed>>

\* lines 145-151: queue <- struct{}{} (blocks while the buffer is full), then
\* the go statement starts job idx's goroutine, which enters DownloadURL.
Send ==
    /\ ~crashed
    /\ cpc = "send"
    /\ ~closed
    /\ CanSend
    /\ queue' = queue + 1
    /\ pc' = [pc EXCEPT ![idx] = "newreq"]
    /\ idx' = idx + 1
    /\ cpc' = IF idx = Len(urls) THEN "close" ELSE "add"
    /\ UNCHANGED <<pureVars, urls, maxConcurrency, bar, barTotal, wg, closed,
                   checkStatus, callVars, off, file, ret, result, fsVars, pre, crashed>>

\* line 153: close(queue)
Close ==
    /\ ~crashed
    /\ cpc = "close"
    /\ closed' = TRUE
    /\ cpc' = "wait"
    /\ UNCHANGED <<pureVars, urls, maxConcurrency, bar, barTotal, wg, queue, idx, pc,
                   checkStatus, callVars, off, file, ret, result, fsVars, pre, crashed>>

\* Wait that returns without waiting for the counter.
WaitNoBlock ==
    /\ ~crashed
    /\ cpc = "wait"
    /\ cpc' = "returned"
    /\ UNCHANGED <<pureVars, urls, maxConcurrency, bar, barTotal, wg, queue, closed, idx, pc,
                   checkStatus, callVars, off, file, ret, result, fsVars, pre, crashed>>

\* line 154: wg.Wait() returns once the counter is zero; the function returns.
Wait ==
    /\ ~crashed
    /\ cpc = "wait"
    /\ wg = 0
    /\ cpc' = "returned"
    /\ UNCHANGED <<pureVars, urls, maxConcurrency, bar, barTotal, wg, queue, closed, idx, pc,
                   checkStatus, callVars, off, file, ret, result, fsVars, pre, crashed>>

\* ------------------------------------------------------------ CallRequest
\* Accepted that takes any response, whatever its status.
AcceptedAnyStatus(o, check) == o # "err"

\* An attempt succeeds when client.Do gave no error and the status check
\* is off or the status is 200 (lines 56-61).
Accepted(o, check) == o # "err" /\ (~check \/ o = "ok")

\* lines 22-25: http.NewRequest; on an error CallRequest returns (nil, err).
\* Lines 27-53 set up cookies, headers, params and the client.
NewRequest(j) ==
    /\ ~crashed
    /\ pc[j] = "newreq"
    /\ \E ok \in BOOLEAN :
         IF ok
         THEN /\ pc' = [pc EXCEPT ![j] = "loop"]
              /\ i' = [i EXCEPT ![j] = 1]
              /\ err' = [err EXCEPT ![j] = "nil"]
              /\ res' = res
         ELSE /\ pc' = [pc EXCEPT ![j] = "cr_ret"]
              /\ res' = [res EXCEPT ![j] = "nil"]
              /\ err' = [err EXCEPT ![j] = "err"]
              /\ i' = i
    /\ UNCHANGED <<pureVars, urls, coordVars, checkStatus, last, off, file, ret, result, fsVars, pre, crashed>>

\* Attempt that returns at once, without the sleep, when the last allowed
\* attempt fails.
AttemptNoSleepOnLast(j) ==
    /\ ~crashed
    /\ pc[j] = "loop"
    /\ i[j] <= RETRY_COUNTER
    /\ \E o \in {"err", "non200", "ok"} :
         /\ last' = [last EXCEPT ![j] = o]
         /\ IF Accepted(o, checkStatus[j])
            THEN /\ pc' = [pc EXCEPT ![j] = "cr_ret"]
                 /\ res' = [res EXCEPT ![j] = "resp"]
                 /\ err' = [err EXCEPT ![j] = "nil"]
            ELSE IF i[j] = RETRY_COUNTER
            THEN /\ pc' = [pc EXCEPT ![j] = "cr_ret"]
                 /\ res' = [res EXCEPT ![j] = "nil"]
                 /\ err' = err
            ELSE /\ pc' = [pc EXCEPT ![j] = "sleep"]
                 /\ UNCHANGED <<res, err>>
    /\ UNCHANGED <<pureVars, urls, coordVars, checkStatus, i, off, file, ret, result, fsVars, pre, crashed>>

\* lines 54-62: the loop test i <= RETRY_COUNTER and one client.Do(req).  The
\* resp and err of the attempt are declared inside the loop (resp, err := ...),
\* so the outer err is not assigned.
Attempt(j) ==
    /\ ~crashed
    /\ pc[j] = "loop"
    /\ i[j] <= RETRY_COUNTER
    /\ \E o \in {"err", "non200", "ok"} :
         /\ last' = [last EXCEPT ![j] = o]
         /\ IF Accepted(o, checkStatus[j])
            THEN /\ pc' = [pc EXCEPT ![j] = "cr_ret"]
                 /\ res' = [res EXCEPT ![j] = "resp"]
                 /\ err' = [err EXCEPT ![j] = "nil"]
            ELSE /\ pc' = [pc EXCEPT ![j] = "sleep"]
                 /\ UNCHANGED <<res, err>>
    /\ UNCHANGED <<pureVars, urls, coordVars, checkStatus, i, off, file, ret, result, fsVars, pre, crashed>>

\* line 63 and the loop's i++: time.Sleep(utils.GetRandomDelay()).
Sleep(j) ==
    /\ ~crashed
    /\ pc[j] = "sleep"
    /\ i' = [i EXCEPT ![j] = i[j] + 1]
    /\ pc' = [pc EXCEPT ![j] = "loop"]
    /\ UNCHANGED <<pureVars, urls, coordVars, checkStatus, last, res, err, off, file, ret, result, fsVars, pre, crashed>>

\* lines 65-67: the loop is over; log, then return nil and the outer err.
LoopExit(j) ==
    /\ ~crashed
    /\ pc[j] = "loop"
    /\ i[j] > RETRY_COUNTER
    /\ pc' = [pc EXCEPT ![j] = "cr_ret"]
    /\ res' = [res EXCEPT ![j] = "nil"]
    /\ err' = [err EXCEPT ![j] = err[j]]
    /\ UNCHANGED <<pureVars, urls, coordVars, checkStatus, i, last, off, file, ret, result, fsVars, pre, crashed>>

\* ------------------------------------------------------------ DownloadURL
\* CallRequest's locals are gone once DownloadURL goes on.
DropCallLocals(j) ==
    /\ i' = [i EXCEPT ![j] = 0]
    /\ last' = [last EXCEPT ![j] = "none"]
    /\ res' = [res EXCEPT ![j] = "none"]
    /\ err' = [err EXCEPT ![j] = "none"]

\* AfterCall with the directory made before the result of CallRequest is looked at.
AfterCallMkdirFirst(j) ==
    /\ ~crashed
    /\ pc[j] = "cr_ret"
    /\ DropCallLocals(j)
    /\ dirs' = dirs \cup {urls[j]}
    /\ IF err[j] # "nil"
       THEN /\ pc' = [pc EXCEPT ![j] = "ret"]
            /\ ret' = [ret EXCEPT ![j] = "err"]
            /\ result' = [result EXCEPT ![j] = "reqerr"]
            /\ UNCHANGED crashed
       ELSE IF res[j] = "nil"
       THEN /\ pc' = [pc EXCEPT ![j] = "panic_res"]
            /\ crashed' = TRUE
            /\ UNCHANGED <<ret, result>>
       ELSE /\ pc' = [pc EXCEPT ![j] = "check"]
            /\ UNCHANGED <<ret, result, crashed>>
    /\ UNCHANGED <<pureVars, urls, coordVars, checkStatus, off, file, fs, pre>>

\* lines 79-99: return err if CallRequest gave one; defer res.Body.Close()
\* (a nil res is dereferenced here: an unrecovered panic in a goroutine ends
\* the process); create the directory and resolve the file path.
AfterCall(j) ==
    /\ ~crashed
    /\ pc[j] = "cr_ret"
    /\ DropCallLocals(j)
    /\ IF err[j] # "nil"
       THEN /\ pc' = [pc EXCEPT ![j] = "ret"]
            /\ ret' = [ret EXCEPT ![j] = "err"]
            /\ result' = [result EXCEPT ![j] = "reqerr"]
            /\ UNCHANGED <<dirs, crashed>>
       ELSE IF res[j] = "nil"
       THEN /\ pc' = [pc EXCEPT ![j] = "panic_res"]
            /\ crashed' = TRUE
            /\ UNCHANGED <<ret, result, dirs>>
       ELSE /\ pc' = [pc EXCEPT ![j] = "check"]
            /\ dirs' = dirs \cup {urls[j]}
            /\ UNCHANGED <<ret, result, crashed>>
    /\ UNCHANGED <<pureVars, urls, coordVars, checkStatus, off, file, fs, pre>>

\* CheckExists that skips whenever a file is there, empty or not.
CheckExistsAnyFile(j) ==
    /\ ~crashed
    /\ pc[j] = "check"
    /\ IF fs[urls[j]].id # 0
       THEN /\ pc' = [pc EXCEPT ![j] = "ret"]
            /\ ret' = [ret EXCEPT ![j] = "nil"]
            /\ result' = [result EXCEPT ![j] = "skipped"]
       ELSE /\ pc' = [pc EXCEPT ![j] = "create"]
            /\ UNCHANGED <<ret, result>>
    /\ UNCHANGED <<pureVars, urls, coordVars, checkStatus, callVars, off, file, fsVars, pre, crashed>>

\* CheckExists with the test inverted: it goes on to write over a non-empty file.
CheckExistsInverted(j) ==
    /\ ~crashed
    /\ pc[j] = "check"
    /\ IF CheckIfFileIsEmpty(urls[j])
       THEN /\ pc' = [pc EXCEPT ![j] = "ret"]
            /\ ret' = [ret EXCEPT ![j] = "nil"]
            /\ result' = [result EXCEPT ![j] = "skipped"]
       ELSE /\ pc' = [pc EXCEPT ![j] = "create"]
            /\ UNCHANGED <<ret, result>>
    /\ UNCHANGED <<pureVars, urls, coordVars, checkStatus, callVars, off, file, fsVars, pre, crashed>>

\* lines 101-104: a non-empty file at the resolved path: return nil.
CheckExists(j) ==
    /\ ~crashed
    /\ pc[j] = "check"
    /\ IF ~CheckIfFileIsEmpty(urls[j])
       THEN /\ pc' = [pc EXCEPT ![j] = "ret"]
            /\ ret' = [ret EXCEPT ![j] = "nil"]
            /\ result' = [result EXCEPT ![j] = "skipped"]
       ELSE /\ pc' = [pc EXCEPT ![j] = "create"]
            /\ UNCHANGED <<ret, result>>
    /\ UNCHANGED <<pureVars, urls, coordVars, checkStatus, callVars, off, file, fsVars, pre, crashed>>

\* lines 107-110: os.Create; its error is a panic.
Create(j) ==
    /\ ~crashed
    /\ pc[j] = "create"
    /\ \E ok \in BOOLEAN :
         IF ok
         THEN /\ fs' = [fs EXCEPT ![urls[j]] = OsCreate(urls[j], j)]
              /\ file' = [file EXCEPT ![j] = fs'[urls[j]].id]
              /\ off' = [off EXCEPT ![j] = 0]
              /\ pc' = [pc EXCEPT ![j] = "copy"]
              /\ UNCHANGED crashed
         ELSE /\ pc' = [pc EXCEPT ![j] = "panic_create"]
              /\ crashed' = TRUE
              /\ UNCHANGED <<fs, file, off>>
    /\ UNCHANGED <<pureVars, urls, coordVars, checkStatus, callVars, ret, result, dirs, pre>>

\* The file at p after a holder of inode f writes chunk c at offset o: the
\* write reaches the path only while the path still names that inode.
FileWrite(p, f, o, c) ==
    IF fs[p].id = f /\ f # 0
    THEN [id |-> f, data |-> WriteAt(fs[p].data, o, c)]
    ELSE fs[p]

\* line 114: io.Copy moves one more chunk of the body to the file.
CopyChunk(j) ==
    /\ ~crashed
    /\ pc[j] = "copy"
    /\ off[j] < BodyLen
    /\ fs' = [fs EXCEPT ![urls[j]] = FileWrite(urls[j], file[j], off[j], Body(j)[off[j] + 1])]
    /\ off' = [off EXCEPT ![j] = off[j] + 1]
    /\ UNCHANGED <<pureVars, urls, coordVars, pc, checkStatus, callVars, file, ret, result, dirs, pre, crashed>>

\* line 114: io.Copy returns an error before the body is complete (the byte
\* count it returns is discarded).
CopyFail(j) ==
    /\ ~crashed
    /\ pc[j] = "copy"
    /\ off[j] < BodyLen
    /\ pc' = [pc EXCEPT ![j] = "cleanup"]
    /\ off' = [off EXCEPT ![j] = 0]
    /\ UNCHANGED <<pureVars, urls, coordVars, checkStatus, callVars, file, ret, result, fsVars, pre, crashed>>

\* Cleanup that closes the file and forgets to remove it.
CleanupKeepsFile(j) ==
    /\ ~crashed
    /\ pc[j] = "cleanup"
    /\ file' = [file EXCEPT ![j] = 0]
    /\ pc' = [pc EXCEPT ![j] = "ret"]
    /\ ret' = [ret EXCEPT ![j] = "nil"]
    /\ result' = [result EXCEPT ![j] = "writefail"]
    /\ UNCHANGED <<pureVars, urls, coordVars, checkStatus, callVars, off, fs, dirs, pre, crashed>>

\* lines 115-121: file.Close(), os.Remove(filePath), log, return nil.
Cleanup(j) ==
    /\ ~crashed
    /\ pc[j] = "cleanup"
    /\ fs' = [fs EXCEPT ![urls[j]] = NoFile]
    /\ file' = [file EXCEPT ![j] = 0]
    /\ pc' = [pc EXCEPT ![j] = "ret"]
    /\ ret' = [ret EXCEPT ![j] = "nil"]
    /\ result' = [result EXCEPT ![j] = "writefail"]
    /\ UNCHANGED <<pureVars, urls, coordVars, checkStatus, callVars, off, dirs, pre, crashed>>

\* lines 114, 122-123: io.Copy reached the end of the body; file.Close(), return nil.
CopyDone(j) ==
    /\ ~crashed
    /\ pc[j] = "copy"
    /\ off[j] = BodyLen
    /\ file' = [file EXCEPT ![j] = 0]
    /\ pc' = [pc EXCEPT ![j] = "ret"]
    /\ ret' = [ret EXCEPT ![j] = "nil"]
    /\ result' = [result EXCEPT ![j] = "written"]
    /\ off' = [off EXCEPT ![j] = 0]
    /\ UNCHANGED <<pureVars, urls, coordVars, checkStatus, callVars, fsVars, pre, crashed>>

\* ------------------------------------------- the goroutine of lines 146-151
\* BarAdd that ticks the bar twice for a job whose DownloadURL returned an error.
BarAddTwiceOnErr(j) ==
    /\ ~crashed
    /\ pc[j] = "ret"
    /\ bar' = IF ret[j] = "err" THEN bar + 2 ELSE bar + 1
    /\ pc' = [pc EXCEPT ![j] = "release"]
    /\ ret' = [ret EXCEPT ![j] = "none"]
    /\ result' = [result EXCEPT ![j] = "none"]
    /\ UNCHANGED <<pureVars, urls, maxConcurrency, barTotal, wg, queue, closed, cpc, idx,
                   checkStatus, callVars, off, file, fsVars, pre, crashed>>

\* BarAdd that ticks the bar only for a job whose DownloadURL wrote or skipped.
BarAddOnSuccess(j) ==
    /\ ~crashed
    /\ pc[j] = "ret"
    /\ bar' = IF result[j] \in {"written", "skipped"} THEN bar + 1 ELSE bar
    /\ pc' = [pc EXCEPT ![j] = "release"]
    /\ ret' = [ret EXCEPT ![j] = "none"]
    /\ result' = [result EXCEPT ![j] = "none"]
    /\ UNCHANGED <<pureVars, urls, maxConcurrency, barTotal, wg, queue, closed, cpc, idx,
                   checkStatus, callVars, off, file, fsVars, pre, crashed>>

\* lines 148-149: the goroutine discards DownloadURL's return value (and
\* DownloadURL's locals are gone); bar.Add(1).
BarAdd(j) ==
    /\ ~crashed
    /\ pc[j] = "ret"
    /\ bar' = bar + 1
    /\ pc' = [pc EXCEPT ![j] = "release"]
    /\ ret' = [ret EXCEPT ![j] = "none"]
    /\ result' = [result EXCEPT ![j] = "none"]
    /\ UNCHANGED <<pureVars, urls, maxConcurrency, barTotal, wg, queue, closed, cpc, idx,
                   checkStatus, callVars, off, file, fsVars, pre, crashed>>

\* A receive proceeds when a value is buffered, or at once (zero value) when
\* the channel is closed and drained.
CanReceive == queue > 0 \/ closed

\* Release that goes on without taking a value from the channel.
ReleaseKeepsSlot(j) ==
    /\ ~crashed
    /\ pc[j] = "release"
    /\ pc' = [pc EXCEPT ![j] = "wgdone"]
    /\ UNCHANGED <<pureVars, urls, coordVars, checkStatus, callVars, off, file, ret, result, fsVars, pre, crashed>>

\* line 150: <-queue
Release(j) ==
    /\ ~crashed
    /\ pc[j] = "release"
    /\ CanReceive
    /\ queue' = IF queue > 0 THEN queue - 1 ELSE queue
    /\ pc' = [pc EXCEPT ![j] = "wgdone"]
    /\ UNCHANGED <<pureVars, urls, maxConcurrency, bar, barTotal, wg, closed, cpc, idx,
                   checkStatus, callVars, off, file, ret, result, fsVars, pre, crashed>>

\* line 147: the deferred wg.Done()
WgDone(j) ==
    /\ ~crashed
    /\ pc[j] = "wgdone"
    /\ wg' = wg - 1
    /\ pc' = [pc EXCEPT ![j] = "done"]
    /\ UNCHANGED <<pureVars, urls, maxConcurrency, bar, barTotal, queue, closed, cpc, idx,
                   checkStatus, callVars, off, file, ret, result, fsVars, pre, crashed>>

\* ------------------------------------------------------- specifications
Next ==
    \/ Start
    \/ WgAdd
    \/ Send
    \/ Close
    \/ Wait
    \/ \E j \in Jobs : NewRequest(j)
    \/ \E j \in Jobs : Attempt(j)
    \/ \E j \in Jobs : Sleep(j)
    \/ \E j \in Jobs : LoopExit(j)
    \/ \E j \in Jobs : AfterCall(j)
    \/ \E j \in Jobs : CheckExists(j)
    \/ \E j \in Jobs : Create(j)
    \/ \E j \in Jobs : CopyChunk(j)
    \/ \E j \in Jobs : CopyFail(j)
    \/ \E j \in Jobs : Cleanup(j)
    \/ \E j \in Jobs : CopyDone(j)
    \/ \E j \in Jobs : BarAdd(j)
    \/ \E j \in Jobs : Release(j)
    \/ \E j \in Jobs : WgDone(j)

\* One call of DownloadURLsParallel.
Spec == Init /\ [][Next]_vars

\* The same, with the scheduler never stopping while a step is possible.
FairSpec == Spec /\ WF_vars(Next)

\* Callers 1..MaxCallers each make one direct call of CallRequest, with
\* either value of checkStatus; there is no coordinator.
InitCall ==
    /\ urls \in [1..MaxCallers -> {1}]
    /\ maxConcurrency = 0
    /\ bar = 0
    /\ barTotal = -1
    /\ wg = 0
    /\ queue = 0
    /\ closed = FALSE
    /\ cpc = "none"
    /\ idx = 1
    /\ pc = [j \in Jobs |-> "newreq"]
    /\ checkStatus \in [Jobs -> BOOLEAN]
    /\ InitLocals
    /\ pre = [p \in Paths |-> "absent"]
    /\ fs = [p \in Paths |-> NoFile]
    /\ dirs = {}
    /\ InitPureIdle

NextCall ==
    \/ \E j \in Jobs : NewRequest(j)
    \/ \E j \in Jobs : Attempt(j)
    \/ \E j \in Jobs : Sleep(j)
    \/ \E j \in Jobs : LoopExit(j)

SpecCall == InitCall /\ [][NextCall]_vars

\* ------------------------------------------- CallRequest's params block
\* Nothing of a batch is running.
InitRunIdle ==
    /\ urls = <<>>
    /\ maxConcurrency = 0
    /\ bar = 0
    /\ barTotal = -1
    /\ wg = 0
    /\ queue = 0
    /\ closed = FALSE
    /\ cpc = "none"
    /\ idx = 1
    /\ pc = <<>>
    /\ checkStatus = <<>>
    /\ InitLocals
    /\ pre = [p \in Paths |-> "absent"]
    /\ fs = [p \in Paths |-> NoFile]
    /\ dirs = {}

\* line 22: the request's URL is the url argument, its RawQuery that URL's
\* query; the params argument maps some keys to one value each.
InitQuery ==
    /\ InitRunIdle
    /\ urlQuery \in SeqsUpTo(Keys \X Vals, MaxQueryLen)
    /\ \E K \in SUBSET Keys : params \in [K -> Vals]
    /\ query = [k \in Keys |-> <<>>]
    /\ todo = {}
    /\ rawQuery = urlQuery
    /\ qpc = "params"
    /\ supplied = <<>>
    /\ filePath = <<>>
    /\ reqURL = <<>>
    /\ filename = <<>>
    /\ ppc = "idle"

\* line 43: len(params) > 0 is false, the block is skipped.
SkipParams ==
    /\ qpc = "params"
    /\ DOMAIN params = {}
    /\ qpc' = "done"
    /\ UNCHANGED <<runVars, pathVars, urlQuery, params, query, todo, rawQuery>>

\* lines 43-44: query := req.URL.Query()
URLQuery ==
    /\ qpc = "params"
    /\ DOMAIN params # {}
    /\ query' = ParseQuery(rawQuery)
    /\ todo' = DOMAIN params
    /\ qpc' = "range"
    /\ UNCHANGED <<runVars, pathVars, urlQuery, params, rawQuery>>

\* QueryAdd that replaces the key's values (url.Values.Set).
QueryAddReplaces ==
    /\ qpc = "range"
    /\ \E key \in todo :
         /\ query' = [query EXCEPT ![key] = <<params[key]>>]
         /\ todo' = todo \ {key}
    /\ UNCHANGED <<runVars, pathVars, urlQuery, params, rawQuery, qpc>>

\* lines 45-47: one iteration of the range over params, in the map's
\* unspecified order: query.Add(key, value) appends to the key's values.
QueryAdd ==
    /\ qpc = "range"
    /\ \E key \in todo :
         /\ query' = [query EXCEPT ![key] = Append(@, params[key])]
         /\ todo' = todo \ {key}
    /\ UNCHANGED <<runVars, pathVars, urlQuery, params, rawQuery, qpc>>

\* line 48: req.URL.RawQuery = query.Encode()
EncodeQuery ==
    /\ qpc = "range"
    /\ todo = {}
    /\ rawQuery' = Encode(query)
    /\ qpc' = "done"
    /\ UNCHANGED <<runVars, pathVars, urlQuery, params, query, todo>>

NextQuery ==
    \/ SkipParams
    \/ URLQuery
    \/ QueryAdd
    \/ EncodeQuery

\* One pass of CallRequest through its params block.
SpecQuery == InitQuery /\ [][NextQuery]_vars

\* --------------------------------------------- DownloadURL's path block
\* line 84: DownloadURL has its response; filePath is the argument, the
\* request URL whatever the redirects led to.
InitPath ==
    /\ InitRunIdle
    /\ urlQuery = <<>>
    /\ params = [k \in {} |-> "v1"]
    /\ query = [k \in Keys |-> <<>>]
    /\ todo = {}
    /\ rawQuery = <<>>
    /\ qpc = "idle"
    /\ supplied \in SeqsUpTo(PathChars, MaxPathLen)
    /\ filePath = supplied
    /\ reqURL \in {<<"/">> \o t : t \in SeqsUpTo(URLChars, MaxURLLen)}
    /\ filename = <<>>
    /\ ppc = "ext"

\* lines 85-90: filePath has no extension; the whole URL string is unescaped.
\* (An escape url.PathUnescape rejects does not occur in the path of a URL
\* that was parsed.)
Unescape ==
    /\ ppc = "ext"
    /\ Ext(filePath) = <<>>
    /\ filename' = PathUnescape(reqURL)
    /\ ppc' = "lastpart"
    /\ UNCHANGED <<runVars, queryVars, supplied, filePath, reqURL>>

\* line 91: filename = utils.GetLastPartOfURL(filename)
LastPart ==
    /\ ppc = "lastpart"
    /\ filename' = GetLastPartOfURL(filename)
    /\ ppc' = "join"
    /\ UNCHANGED <<runVars, queryVars, supplied, filePath, reqURL>>

\* JoinName that lower-cases the whole file name.
JoinNameLowerAll ==
    /\ ppc = "join"
    /\ filePath' = FilepathJoin(filePath, ToLower(filename))
    /\ ppc' = "resolved"
    /\ UNCHANGED <<runVars, queryVars, supplied, reqURL, filename>>

\* lines 92-93: the name without its extension, plus that extension in lower
\* case, joined to the directory.
JoinName ==
    /\ ppc = "join"
    /\ filePath' = FilepathJoin(filePath,
                       RemoveExtFromFilename(filename) \o ToLower(Ext(filename)))
    /\ ppc' = "resolved"
    /\ UNCHANGED <<runVars, queryVars, supplied, reqURL, filename>>

\* NormalizeExt that takes the extension from the response URL.
NormalizeExtFromURL ==
    /\ ppc = "ext"
    /\ Ext(filePath) # <<>>
    /\ filePath' = RemoveExtFromFilename(filePath) \o ToLower(Ext(PathUnescape(reqURL)))
    /\ ppc' = "resolved"
    /\ UNCHANGED <<runVars, queryVars, supplied, reqURL, filename>>

\* lines 94-99: filePath has an extension; the path without it, plus that
\* extension in lower case.
NormalizeExt ==
    /\ ppc = "ext"
    /\ Ext(filePath) # <<>>
    /\ filePath' = RemoveExtFromFilename(filePath) \o ToLower(Ext(filePath))
    /\ ppc' = "resolved"
    /\ UNCHANGED <<runVars, queryVars, supplied, reqURL, filename>>

NextPath ==
    \/ Unescape
    \/ LastPart
    \/ JoinName
    \/ NormalizeExt

\* One pass of DownloadURL through its path block.
SpecPath == InitPath /\ [][NextPath]_vars

\* ================================================================ claims
Min(a, b) == IF a < b THEN a ELSE b

\* Jobs that have entered DownloadURL and not yet received from the slot channel.
InFlight == {j \in Jobs : pc[j] \notin {"idle", "wgdone", "done"}}

\* No other job of the batch resolves to job j's path.
OwnPath(j) == \A k \in Jobs : k # j => urls[k] # urls[j]

\* C1: at every moment the number of jobs that have started DownloadURL and
\* not yet released their slot is at most min(maxConcurrency, len(urls)).
C1_InFlightBounded ==
    Cardinality(InFlight) <= Min(maxConcurrency, Len(urls))

\* C1 witness: three jobs, limit two: two jobs in flight, the coordinator
\* waiting to admit the third.
C1_Witness ==
    /\ Len(urls) = 3
    /\ maxConcurrency = 2
    /\ cpc = "send"
    /\ idx = 3
    /\ Cardinality(InFlight) = 2

\* C2 (as claimed): a job whose dispatch used up every attempt never ends the
\* process: no goroutine panics on the nil response CallRequest handed back.
C2_ExhaustedJobDoesNotStopBatch ==
    \A j \in Jobs : pc[j] # "panic_res"

Exhausted(j) == pc[j] = "cr_ret" /\ res[j] = "nil" /\ i[j] > RETRY_COUNTER

\* C4 (as claimed): when every attempt failed, CallRequest returns the last
\* attempt's transport error: a non-nil error exactly when that attempt ended
\* in a transport error, nil exactly when it ended in a non-200 status.
C4_ReturnsLastTransportError ==
    \A j \in Jobs : Exhausted(j) => (err[j] = "err" <=> last[j] = "err")

\* client.Do calls CallRequest of job j has made so far.
\* (attempt i is under way or done when i is set: done once the goroutine
\* sleeps after it or has returned its response.)
AttemptsMade(j) ==
    IF i[j] = 0 THEN 0
    ELSE IF pc[j] = "sleep" \/ res[j] = "resp" THEN i[j]
    ELSE i[j] - 1

C6_FirstSuccessReturned ==
    \A j \in Jobs :
        /\ AttemptsMade(j) <= RETRY_COUNTER
        /\ (last[j] \in {"non200", "ok"} /\ (~checkStatus[j] \/ last[j] = "ok"))
             <=> (pc[j] = "cr_ret" /\ res[j] = "resp" /\ err[j] = "nil")

\* C6 witness: with the status check off, the first attempt failed and the
\* second, a non-200 response, was returned.
C6_Witness ==
    \E j \in Jobs :
        /\ ~checkStatus[j]
        /\ pc[j] = "cr_ret"
        /\ res[j] = "resp"
        /\ last[j] = "non200"
        /\ i[j] = 2

\* C7: when DownloadURL has returned after a failed copy, no file is at the
\* job's path and the value returned is nil (for a job that shares its path
\* with no other job of the batch).
C7_FailedCopyLeavesNoFile ==
    \A j \in Jobs :
        pc[j] = "ret" /\ result[j] = "writefail" /\ OwnPath(j) =>
            /\ fs[urls[j]].id = 0
            /\ ret[j] = "nil"

\* C7 witness: a job of a batch of two has returned from a failed copy, to a
\* path it has to itself.
C7_Witness ==
    \E j \in Jobs :
        /\ Len(urls) >= 2
        /\ OwnPath(j)
        /\ pc[j] = "ret"
        /\ result[j] = "writefail"

\* The jobs of the batch resolve to pairwise distinct paths.
DistinctPaths == \A j, k \in Jobs : j # k => urls[j] # urls[k]

\* A goroutine is between os.Create and the end of DownloadURL on path p.
Writing(p) == \E j \in Jobs : urls[j] = p /\ pc[j] \in {"copy", "cleanup"}

\* Path p holds nothing, what it held before the run, or a whole body.
Untruncated(p) ==
    \/ fs[p].id = 0
    \/ fs[p] = InitFile(p, pre[p])
    \/ \E j \in Jobs : urls[j] = p /\ fs[p].data = Body(j)

\* C8 (as claimed): with pairwise distinct paths, a path that no goroutine is
\* in the middle of writing, or any path once the process has stopped, never
\* holds a truncated body.
C8_NeverTruncated ==
    DistinctPaths => \A p \in Paths : (crashed \/ ~Writing(p)) => Untruncated(p)

\* C9: DownloadURLsParallel has returned only if every job's goroutine is done.
C9_ReturnsAfterAllJobs ==
    cpc = "returned" => \A j \in Jobs : pc[j] = "done"

\* C9 witness: a run of three jobs with limit two has returned.
C9_Witness ==
    /\ cpc = "returned"
    /\ Len(urls) = 3
    /\ maxConcurrency = 2
    /\ \A j \in Jobs : pc[j] = "done"

\* C10: with a limit of at least one, every fairly scheduled run in which no
\* goroutine panics (no dispatch runs out of attempts, os.Create does not
\* fail) reaches the return of DownloadURLsParallel.
C10_EventuallyReturns ==
    (maxConcurrency >= 1) => <>(cpc = "returned" \/ crashed)

\* C10 witness: a run of three jobs through a single slot has returned.
C10_Witness ==
    /\ cpc = "returned"
    /\ Len(urls) = 3
    /\ maxConcurrency = 1
    /\ bar = 3

\* Job j has just left DownloadURL by the skip, at a path that held no
\* non-empty file before the run.
SkippedNew(j) == pc[j] = "ret" /\ result[j] = "skipped" /\ pre[urls[j]] # "old"

\* C11 (as claimed): a job skips its write at a path shared within the batch
\* only if another job of that path had completed its DownloadURL (a
\* necessary part of: had completed its write before this job started).
C11_SkipOnlyAfterCompletedWrite ==
    \A j \in Jobs :
        SkippedNew(j) =>
            \E k \in Jobs :
                /\ k # j
                /\ urls[k] = urls[j]
                /\ pc[k] \in {"ret", "release", "wgdone", "done"}

\* Job j's step is the skip of lines 102-103.
SkipStep(j) == pc[j] = "check" /\ pc'[j] = "ret"

\* C11 (amended): a job skips its write, at a path that held no non-empty
\* file before the run, only if at its check the file holds a chunk that
\* another job of the batch has written there.
C11_SkipOnlyAfterAnotherJobsChunk ==
    [][\A j \in Jobs :
         SkipStep(j) /\ pre[urls[j]] # "old" =>
            \E n \in 1..Len(fs[urls[j]].data) :
                LET w == fs[urls[j]].data[n][1]
                IN w \in Jobs /\ w # j /\ urls[w] = urls[j]]_vars

\* C11 witness: a job has skipped while the other job of its path is still
\* inside io.Copy, its body incomplete.
C11_Witness ==
    \E j, k \in Jobs :
        /\ k # j
        /\ urls[k] = urls[j]
        /\ SkippedNew(j)
        /\ pc[k] = "copy"
        /\ off[k] < BodyLen

\* C12: while a job's dispatch runs, and when it has run out of attempts, the
\* job has made no file and no directory and changed no file: its path (which
\* no other job shares) is as it was before the run.
C12_FailedDispatchTouchesNothing ==
    \A j \in Jobs :
        pc[j] \in {"newreq", "loop", "sleep", "cr_ret", "panic_res"} /\ OwnPath(j) =>
            /\ fs[urls[j]] = InitFile(urls[j], pre[urls[j]])
            /\ (urls[j] \in dirs) <=> (pre[urls[j]] # "absent")

\* C12 witness: a job whose attempts all failed, at a path that held nothing.
C12_Witness ==
    \E j \in Jobs :
        /\ pc[j] = "panic_res"
        /\ OwnPath(j)
        /\ pre[urls[j]] = "absent"
        /\ Len(urls) >= 2

\* C13: whenever the coordinator is at its send with jobs left to admit and
\* fewer than maxConcurrency jobs are in flight, the send can proceed.
C13_WorkConserving ==
    (~crashed /\ cpc = "send" /\ Cardinality(InFlight) < maxConcurrency)
        => ENABLED Send

\* C13 witness: three jobs, limit two; one job has released its slot and the
\* coordinator is at the send for the third.
C13_Witness ==
    /\ Len(urls) = 3
    /\ maxConcurrency = 2
    /\ cpc = "send"
    /\ idx = 3
    /\ Cardinality(InFlight) = 1
    /\ ~crashed

\* Jobs the coordinator has started.
Admitted == {j \in Jobs : pc[j] # "idle"}

\* Jobs whose goroutine has called bar.Add(1).
Ticked == {j \in Jobs : pc[j] \in {"release", "wgdone", "done"}}

\* Jobs whose DownloadURL call has returned.
Finished == {j \in Jobs : pc[j] \in {"ret", "release", "wgdone", "done"}}

\* C17: the bar counts exactly the jobs that have ticked, each once, after
\* their DownloadURL returned and before their slot release; so the count is
\* at most the number of finished jobs, and admitted jobs not yet counted
\* are at most min(maxConcurrency, len(urls)).
C17_OneTickPerFinishedJob ==
    /\ bar = Cardinality(Ticked)
    /\ bar <= Cardinality(Finished)
    /\ Cardinality(Admitted) - bar <= Min(maxConcurrency, Len(urls))
    /\ \A j \in Jobs : pc[j] = "release" => ret[j] = "none" /\ queue > 0

\* C17 witness: of three jobs with limit two, one has ticked and not yet
\* released, one has returned from DownloadURL by its error and not yet ticked.
C17_Witness ==
    /\ Len(urls) = 3
    /\ maxConcurrency = 2
    /\ bar = 1
    /\ \E j, k \in Jobs :
         /\ pc[j] = "release"
         /\ pc[k] = "ret"
         /\ ret[k] = "err"

\* C18: once the channel is closed the coordinator is past its loop, so no
\* send follows the close; and a goroutine at its receive, before or after
\* the close, can go on, taking a value that was sent (never blocked).
C18_CloseIsSafe ==
    /\ closed => cpc \in {"wait", "returned"} /\ idx = Len(urls) + 1
    /\ cpc \in {"add", "send"} => ~closed
    /\ \A j \in Jobs : pc[j] = "release" /\ ~crashed => ENABLED Release(j)
    /\ queue = Cardinality(InFlight)

\* C18 witness: the channel is closed while one goroutine is at its receive
\* and another is still downloading.
C18_Witness ==
    /\ closed
    /\ ~crashed
    /\ \E j, k \in Jobs :
         /\ pc[j] = "release"
         /\ pc[k] = "copy"

\* C19: with limit 0 and a non-empty batch no job ever starts, the bar stays
\* at 0 and the coordinator never gets past its first send.
C19_ZeroLimitBlocks ==
    (maxConcurrency = 0 /\ Len(urls) > 0) =>
        /\ \A j \in Jobs : pc[j] = "idle"
        /\ bar = 0
        /\ cpc \in {"start", "add", "send"}
        /\ idx = 1
        /\ ~ENABLED Send

\* C19 witness: limit 0, three jobs, the coordinator at its first send.
C19_Witness ==
    /\ maxConcurrency = 0
    /\ Len(urls) = 3
    /\ cpc = "send"
    /\ wg = 1

\* Caller j makes one client.Do attempt in this step.
AttemptStep(j) == pc[j] = "loop" /\ pc'[j] # "loop"

\* Caller j's time.Sleep ends in this step.
SleepStep(j) == pc[j] = "sleep" /\ pc'[j] # "sleep"

\* Sleeps CallRequest of caller j has completed: one per loop iteration left.
SleepsDone(j) == IF i[j] = 0 THEN 0 ELSE i[j] - 1

\* C20: CallRequest sleeps once after every attempt that was not accepted and
\* never after an accepted one; an attempt starts only from the call's
\* beginning or from the end of a sleep; when N attempts have failed N sleeps
\* are done, the last of them between the final attempt and the return.
C20_OneSleepPerFailedAttempt ==
    /\ [](\A j \in Jobs :
            /\ pc[j] = "sleep" => SleepsDone(j) = AttemptsMade(j) - 1
                                  /\ ~Accepted(last[j], checkStatus[j])
            /\ pc[j] = "loop" => SleepsDone(j) = AttemptsMade(j)
            /\ Exhausted(j) => SleepsDone(j) = RETRY_COUNTER
                               /\ AttemptsMade(j) = RETRY_COUNTER
            /\ pc[j] = "cr_ret" /\ res[j] = "resp" =>
                   SleepsDone(j) = AttemptsMade(j) - 1)
    /\ [][\A j \in Jobs :
            /\ AttemptStep(j) /\ i[j] <= RETRY_COUNTER =>
                   /\ i'[j] = i[j]
                   /\ IF Accepted(last'[j], checkStatus[j])
                      THEN pc'[j] = "cr_ret" /\ res'[j] = "resp"
                      ELSE pc'[j] = "sleep"
            /\ AttemptStep(j) /\ i[j] > RETRY_COUNTER =>
                   pc'[j] = "cr_ret" /\ res'[j] = "nil" /\ i'[j] = i[j]
            /\ SleepStep(j) => pc'[j] = "loop" /\ i'[j] = i[j] + 1
            /\ i'[j] # i[j] => SleepStep(j) \/ (pc[j] = "newreq" /\ i'[j] = 1)]_vars

\* C20 witness: one caller has returned after RETRY_COUNTER failed attempts
\* and as many sleeps, the last attempt a non-200 status; another caller is
\* in the sleep after its first failed attempt.
C20_Witness ==
    \E j, k \in Jobs :
        /\ Exhausted(j)
        /\ last[j] = "non200"
        /\ SleepsDone(j) = RETRY_COUNTER
        /\ pc[k] = "sleep"
        /\ i[k] = 1

\* C14 (as claimed): after the merge every supplied key has its supplied
\* value as its only value, and every other key has the values it had.
C14_SuppliedValueIsOnlyValue ==
    qpc = "done" =>
        \A k \in Keys :
            ParseQuery(rawQuery)[k] =
                IF k \in DOMAIN params THEN <<params[k]>>
                ELSE ParseQuery(urlQuery)[k]

\* C14: after the merge every supplied key has the values it had in the URL
\* followed by its supplied value (added, nothing overwritten), and every
\* other key has the values it had, in their order.
C14_SuppliedValueIsAppended ==
    qpc = "done" =>
        \A k \in Keys :
            ParseQuery(rawQuery)[k] =
                IF k \in DOMAIN params
                THEN ParseQuery(urlQuery)[k] \o <<params[k]>>
                ELSE ParseQuery(urlQuery)[k]

\* C14 witness: a key the URL already carried twice was supplied with
\* another value and now has three values; the other key was not supplied.
C14_Witness ==
    /\ qpc = "done"
    /\ urlQuery = << <<"k2", "v1">>, <<"k2", "v1">> >>
    /\ DOMAIN params = {"k2"}
    /\ params["k2"] = "v2"
    /\ rawQuery = << <<"k2", "v1">>, <<"k2", "v1">>, <<"k2", "v2">> >>

\* s with the characters of its extension, and only those, in lower case.
LowerExtOnly(s) ==
    [n \in 1..Len(s) |->
        IF n > Len(s) - Len(Ext(s)) /\ s[n] = "B" THEN "b" ELSE s[n]]

\* C15: a destination with an extension resolves to the supplied path with
\* only the characters of its extension lower-cased, whatever the response
\* URL is.
C15_ExplicitPathKeepsOwnExtension ==
    (ppc = "resolved" /\ Ext(supplied) # <<>>) =>
        /\ filePath = LowerExtOnly(supplied)
        /\ Ext(filePath) = ToLower(Ext(supplied))

\* C15 witness: "B.B" resolved to "B.b" while the response URL ends in ".a".
C15_Witness ==
    /\ ppc = "resolved"
    /\ supplied = <<"B", ".", "B">>
    /\ reqURL = <<"/", "B", ".", "a">>
    /\ filePath = <<"B", ".", "b">>

\* C16 (as claimed): a destination without extension resolves to the
\* directory joined with the unescaped last path segment of the request URL,
\* only that segment's extension lower-cased, and the resolved path's
\* extension is the response URL's in lower case.
C16_JoinsUnescapedLastSegment ==
    (ppc = "resolved" /\ Ext(supplied) = <<>>) =>
        /\ filePath = FilepathJoin(supplied,
                          LowerExtOnly(PathUnescape(GetLastPartOfURL(reqURL))))
        /\ Ext(filePath) = ToLower(Ext(PathUnescape(reqURL)))

\* C16: a destination without extension resolves to the directory joined with
\* what follows the last "/" of the unescaped request URL (an escaped slash
\* counts as a slash), only that name's extension lower-cased; the name's
\* extension is the unescaped URL's in lower case.
C16_JoinsLastPartOfUnescapedURL ==
    (ppc = "resolved" /\ Ext(supplied) = <<>>) =>
        LET name == LowerExtOnly(GetLastPartOfURL(PathUnescape(reqURL)))
        IN /\ filePath = FilepathJoin(supplied, name)
           /\ Ext(name) = ToLower(Ext(PathUnescape(reqURL)))

\* C16 witness: directory "a" and the URL path "/B%2FB" (one segment, an
\* escaped slash in it) resolved to "a/B".
C16_Witness ==
    /\ ppc = "resolved"
    /\ supplied = <<"a">>
    /\ reqURL = <<"/", "B", "%2F", "B">>
    /\ filePath = <<"a", "/", "B">>

====
